---- MODULE Spec2Model ----
(***************************************************************************)
(* The task service of backend/index.js: an Express application with three *)
(* routes (GET /, GET /tasks, POST /tasks) over one Mongoose model, Task,  *)
(* kept in a MongoDB collection.                                           *)
(*                                                                         *)
(* Node runs one callback at a time, so every action below is one turn of  *)
(* the event loop (a request arriving and the synchronous part of its      *)
(* handler, or the continuation after an await) or one step of the         *)
(* environment (the MongoDB server applying an operation, going down or    *)
(* coming back).                                                           *)
(***************************************************************************)
EXTENDS Integers, Sequences, FiniteSets, TLC

VARIABLES
    proc,       \* the Node process: "running" or "crashed"
    conn,       \* mongoose.connection: "connecting", "connected" or "failed"
    storeUp,    \* whether the MongoDB server at mongo:27017 is reachable
    store,      \* the tasks collection, in insertion (natural) order
    idCounter,  \* the process's ObjectId counter
    reqs        \* every HTTP request sent so far, with its handler's state

vars == <<proc, conn, storeUp, store, idCounter, reqs>>

\* ------------------------------------------------------------------ bounds

\* The number of HTTP requests a behaviour issues.
MaxReq == 3

\* ------------------------------------------------------------- JSON values

Absent == [type |-> "undefined", val |-> ""]
Str(s) == [type |-> "string", val |-> s]
Num(s) == [type |-> "number", val |-> s]
Obj == [type |-> "object", val |-> "{}"]
True == [type |-> "boolean", val |-> "true"]

\* The hexadecimal text of the ObjectIds of the model, by number.
HexOf == <<"01", "02", "03", "04", "05", "06", "07", "08", "09">>

\* The request bodies POST /tasks is tried with: the spec's example; a number
\* for a title, with a field the schema does not declare; a title no String
\* can be cast from; a body naming its own _id, "09", an ObjectId the process
\* does not generate in a bounded run; and an _id that is no ObjectId.
Bodies ==
    { [title |-> Str("A"), description |-> Str("B"), done |-> Absent, _id |-> Absent],
      [title |-> Num("7"), description |-> Str("B"), done |-> True, _id |-> Absent],
      [title |-> Obj, description |-> Absent, done |-> True, _id |-> Absent],
      [title |-> Str("A"), description |-> Str("B"), done |-> Absent, _id |-> Str("09")],
      [title |-> Str("C"), description |-> Absent, done |-> True, _id |-> Str("zz")] }

\* ------------------------------------------------------------ the schema

\* SchemaString's cast: a string is kept, a number or a boolean becomes its
\* text, undefined stays undefined; an object cannot be cast.
CanCastString(v) == v.type \in {"undefined", "string", "number", "boolean"}

CastString(v) == IF v.type \in {"number", "boolean"} THEN Str(v.val) ELSE v

\* The ObjectId a JSON value casts to, 0 when it is none.
ParseObjectId(v) ==
    IF v.type = "string" /\ \E n \in 1..Len(HexOf) : HexOf[n] = v.val
    THEN CHOOSE n \in 1..Len(HexOf) : HexOf[n] = v.val
    ELSE 0

CanCastId(v) == v.type = "undefined" \/ ParseObjectId(v) # 0

\* Whether `new Task(body)` records a cast error, which save() rejects with.
CastFails(b) ==
    ~CanCastString(b.title) \/ ~CanCastString(b.description) \/ ~CanCastId(b._id)

\* A mutant of NewTask: the schema with strict mode off keeps unknown paths.
NewTaskNotStrict(b, gen) ==
    [ _id |-> IF ParseObjectId(b._id) # 0 THEN ParseObjectId(b._id) ELSE gen,
      title |-> IF CanCastString(b.title) THEN CastString(b.title) ELSE Absent,
      description |-> IF CanCastString(b.description) THEN CastString(b.description) ELSE Absent,
      done |-> b.done ]

\* A mutant of NewTask: the body's fields copied without the schema's cast.
NewTaskNoCast(b, gen) ==
    [ _id |-> IF ParseObjectId(b._id) # 0 THEN ParseObjectId(b._id) ELSE gen,
      title |-> IF CanCastString(b.title) THEN b.title ELSE Absent,
      description |-> IF CanCastString(b.description) THEN b.description ELSE Absent,
      done |-> Absent ]

\* `new Task(body)`: the generated _id unless the body gives one, the
\* schema's two paths cast to String, every other field dropped (strict mode).
NewTask(b, gen) ==
    [ _id |-> IF ParseObjectId(b._id) # 0 THEN ParseObjectId(b._id) ELSE gen,
      title |-> IF CanCastString(b.title) THEN CastString(b.title) ELSE Absent,
      description |-> IF CanCastString(b.description) THEN CastString(b.description) ELSE Absent,
      done |-> Absent ]

NoTask == [_id |-> 0, title |-> Absent, description |-> Absent, done |-> Absent]

\* A document as res.json writes it: the ObjectId as its hexadecimal text.
ToJSON(d) ==
    [_id |-> Str(HexOf[d._id]), title |-> d.title, description |-> d.description,
     done |-> d.done]

\* -------------------------------------------------------------- responses

RootBody == "Backend is running!"

NoResp == [status |-> 0, kind |-> "none", text |-> "", docs |-> <<>>]

RootResp == [status |-> 200, kind |-> "text", text |-> RootBody, docs |-> <<>>]

\* Express's final handler, given the error a handler's promise rejected with.
ErrorResp(name) == [status |-> 500, kind |-> "error", text |-> name, docs |-> <<>>]

\* A mutant of TasksResp: res.json given the pending query, not its result.
TasksRespNoAwait(tasks) ==
    [status |-> 200, kind |-> "object", text |-> "", docs |-> <<>>]

\* res.json(tasks)
TasksResp(tasks) ==
    [status |-> 200, kind |-> "array", text |-> "",
     docs |-> [i \in 1..Len(tasks) |-> ToJSON(tasks[i])]]

\* A mutant of TaskResp: res.json(req.body), the body echoed back.
TaskRespEcho(r) ==
    [status |-> 200, kind |-> "object", text |-> "",
     docs |-> <<[_id |-> reqs[r].body._id, title |-> reqs[r].body.title,
                 description |-> reqs[r].body.description, done |-> reqs[r].body.done]>>]

\* A mutant of TaskResp: `task` kept in a variable of the module, which every
\* handler assigns, so that a response carries the task built last.
TaskRespShared(r) ==
    LET posts == {p \in 1..Len(reqs) :
                     reqs[p].route = "POST /tasks" /\ reqs[p].pc # "refused"}
        last == CHOOSE p \in posts : \A q \in posts : q <= p
    IN [status |-> 200, kind |-> "object", text |-> "", docs |-> <<ToJSON(reqs[last].task)>>]

\* res.json(task)
TaskResp(r) ==
    [status |-> 200, kind |-> "object", text |-> "", docs |-> <<ToJSON(reqs[r].task)>>]

\* --------------------------------------------------------------- requests

Routes == {"GET /", "GET /tasks", "POST /tasks"}

NoBody == [title |-> Absent, description |-> Absent, done |-> Absent, _id |-> Absent]

Request(route, body, pc, task, verr, resp) ==
    [route |-> route, body |-> body, pc |-> pc, task |-> task, verr |-> verr,
     tasks |-> <<>>, wrote |-> FALSE, resp |-> resp]

Reqs == 1..Len(reqs)

StoreIds == {store[i]._id : i \in 1..Len(store)}

\* Whether an operation handed to mongoose reaches the server now.
Reachable == conn = "connected" /\ storeUp

Init ==
    /\ proc = "running"
    /\ conn = "connecting"
    /\ storeUp \in BOOLEAN
    /\ store = <<>>
    /\ idCounter = 0
    /\ reqs = <<>>

\* ------------------------------------------------- the process's handlers

Send(q) == reqs' = Append(reqs, q)

Answer(r, pc, resp) == reqs' = [reqs EXCEPT ![r].pc = pc, ![r].resp = resp]

\* app.get('/'): res.send('Backend is running!'), in the turn the request
\* arrives in.
GetRoot ==
    /\ proc = "running"
    /\ Len(reqs) < MaxReq
    /\ Send(Request("GET /", NoBody, "done", NoTask, FALSE, RootResp))
    /\ UNCHANGED <<proc, conn, storeUp, store, idCounter>>

\* app.get('/tasks') up to its await: Task.find() is handed to mongoose.
GetTasks ==
    /\ proc = "running"
    /\ Len(reqs) < MaxReq
    /\ Send(Request("GET /tasks", NoBody, "await_find", NoTask, FALSE, NoResp))
    /\ UNCHANGED <<proc, conn, storeUp, store, idCounter>>

\* app.post('/tasks') up to its await: new Task(req.body), which takes the
\* next ObjectId, and task.save() handed to mongoose.
PostTasks(b) ==
    /\ proc = "running"
    /\ Len(reqs) < MaxReq
    /\ idCounter' = idCounter + 1
    /\ Send(Request("POST /tasks", b, "await_save", NewTask(b, idCounter + 1),
                    CastFails(b), NoResp))
    /\ UNCHANGED <<proc, conn, storeUp, store>>

\* A mutant of GetTasksRespond: the handler saves what it listed.
GetTasksRespondWrites(r) ==
    /\ proc = "running"
    /\ reqs[r].pc = "found"
    /\ Answer(r, "done", TasksResp(reqs[r].tasks))
    /\ store' = store \o reqs[r].tasks
    /\ UNCHANGED <<proc, conn, storeUp, idCounter>>

\* app.get('/tasks') after its await: res.json(tasks).
GetTasksRespond(r) ==
    /\ proc = "running"
    /\ reqs[r].pc = "found"
    /\ Answer(r, "done", TasksResp(reqs[r].tasks))
    /\ UNCHANGED <<proc, conn, storeUp, store, idCounter>>

\* app.post('/tasks') after its await: res.json(task).
PostRespond(r) ==
    /\ proc = "running"
    /\ reqs[r].pc = "saved"
    /\ Answer(r, "done", TaskResp(r))
    /\ UNCHANGED <<proc, conn, storeUp, store, idCounter>>

\* save() validates before it writes: a cast error recorded by new Task
\* rejects it, with the store untouched. Express 5 passes the rejection of
\* an async handler to its final handler, which answers 500.
PostInvalid(r) ==
    /\ proc = "running"
    /\ reqs[r].pc = "await_save"
    /\ reqs[r].verr
    /\ Answer(r, "done", ErrorResp("ValidationError"))
    /\ UNCHANGED <<proc, conn, storeUp, store, idCounter>>

\* The awaited operation rejects: mongoose buffered it and the buffer timed
\* out (no connection yet), or the driver found no server to send it to.
OpFails(r) ==
    /\ proc = "running"
    /\ \/ reqs[r].pc = "await_find"
       \/ reqs[r].pc = "await_save" /\ ~reqs[r].verr
    /\ ~Reachable
    /\ Answer(r, "done", ErrorResp("MongooseError"))
    /\ UNCHANGED <<proc, conn, storeUp, store, idCounter>>

\* The server applied the operation and went away before its reply arrived:
\* the awaited promise rejects all the same.
ReplyLost(r) ==
    /\ proc = "running"
    /\ reqs[r].pc \in {"found", "saved"}
    /\ ~storeUp
    /\ Answer(r, "done", ErrorResp("MongoNetworkError"))
    /\ UNCHANGED <<proc, conn, storeUp, store, idCounter>>

\* ------------------------------------------------------------ the store

\* The server runs the find of Task.find(): every document, no filter.
StoreFind(r) ==
    /\ proc = "running"
    /\ reqs[r].pc = "await_find"
    /\ Reachable
    /\ reqs' = [reqs EXCEPT ![r].pc = "found", ![r].tasks = store]
    /\ UNCHANGED <<proc, conn, storeUp, store, idCounter>>

\* A mutant of StoreInsert: a collection without the unique index on _id.
StoreInsertNoIndex(r) ==
    /\ proc = "running"
    /\ reqs[r].pc = "await_save"
    /\ ~reqs[r].verr
    /\ Reachable
    /\ store' = Append(store, reqs[r].task)
    /\ reqs' = [reqs EXCEPT ![r].pc = "saved", ![r].wrote = TRUE]
    /\ UNCHANGED <<proc, conn, storeUp, idCounter>>

\* A mutant of StoreInsert: a save that replaces the collection's last task.
StoreInsertOverwrites(r) ==
    /\ proc = "running"
    /\ reqs[r].pc = "await_save"
    /\ ~reqs[r].verr
    /\ Reachable
    /\ reqs[r].task._id \notin StoreIds
    /\ store' = IF store = <<>> THEN <<reqs[r].task>>
                ELSE [store EXCEPT ![Len(store)] = reqs[r].task]
    /\ reqs' = [reqs EXCEPT ![r].pc = "saved", ![r].wrote = TRUE]
    /\ UNCHANGED <<proc, conn, storeUp, idCounter>>

\* The server runs the insert of task.save(): one document added, unless
\* the collection's unique index on _id already holds its _id.
StoreInsert(r) ==
    /\ proc = "running"
    /\ reqs[r].pc = "await_save"
    /\ ~reqs[r].verr
    /\ Reachable
    /\ reqs[r].task._id \notin StoreIds
    /\ store' = Append(store, reqs[r].task)
    /\ reqs' = [reqs EXCEPT ![r].pc = "saved", ![r].wrote = TRUE]
    /\ UNCHANGED <<proc, conn, storeUp, idCounter>>

\* The server refuses the insert (E11000, duplicate key) and save() rejects.
StoreDuplicate(r) ==
    /\ proc = "running"
    /\ reqs[r].pc = "await_save"
    /\ ~reqs[r].verr
    /\ Reachable
    /\ reqs[r].task._id \in StoreIds
    /\ Answer(r, "done", ErrorResp("MongoServerError"))
    /\ UNCHANGED <<proc, conn, storeUp, store, idCounter>>

StoreGoesDown ==
    /\ storeUp
    /\ storeUp' = FALSE
    /\ UNCHANGED <<proc, conn, store, idCounter, reqs>>

StoreComesUp ==
    /\ ~storeUp
    /\ storeUp' = TRUE
    /\ UNCHANGED <<proc, conn, store, idCounter, reqs>>

\* ------------------------------------------------------- the connection

\* mongoose.connect(...) resolves.
ConnectOk ==
    /\ proc = "running"
    /\ conn = "connecting"
    /\ storeUp
    /\ conn' = "connected"
    /\ UNCHANGED <<proc, storeUp, store, idCounter, reqs>>

Abort(q) == IF q.pc \in {"await_find", "await_save", "found", "saved"}
            THEN [q EXCEPT !.pc = "aborted"] ELSE q

\* mongoose.connect(...) rejects (no server selected). Nothing awaits or
\* catches the promise: Node 18 ends the process on the unhandled rejection,
\* and the requests it was handling are never answered.
ConnectFails ==
    /\ proc = "running"
    /\ conn = "connecting"
    /\ ~storeUp
    /\ conn' = "failed"
    /\ proc' = "crashed"
    /\ reqs' = [r \in Reqs |-> Abort(reqs[r])]
    /\ UNCHANGED <<storeUp, store, idCounter>>

\* app.listen's socket is gone with the process: a request is refused.
Refused(route) ==
    /\ proc = "crashed"
    /\ Len(reqs) < MaxReq
    /\ Send(Request(route, NoBody, "refused", NoTask, FALSE, NoResp))
    /\ UNCHANGED <<proc, conn, storeUp, store, idCounter>>

Next ==
    \/ GetRoot
    \/ GetTasks
    \/ \E b \in Bodies : PostTasks(b)
    \/ \E r \in Reqs : GetTasksRespond(r)
    \/ \E r \in Reqs : PostRespond(r)
    \/ \E r \in Reqs : PostInvalid(r)
    \/ \E r \in Reqs : OpFails(r)
    \/ \E r \in Reqs : ReplyLost(r)
    \/ \E r \in Reqs : StoreFind(r)
    \/ \E r \in Reqs : StoreInsert(r)
    \/ \E r \in Reqs : StoreDuplicate(r)
    \/ StoreGoesDown
    \/ StoreComesUp
    \/ ConnectOk
    \/ ConnectFails
    \/ \E route \in Routes : Refused(route)

Spec == Init /\ [][Next]_vars

\* ------------------------------------------------------ the claims' terms

Posts == {r \in Reqs : reqs[r].route = "POST /tasks"}

Lists == {r \in Reqs : reqs[r].route = "GET /tasks"}

\* The POST /tasks requests answered with their task.
OkPosts == {r \in Posts : reqs[r].resp.status = 200}

\* The GET /tasks requests answered with a list.
OkLists == {r \in Lists : reqs[r].resp.status = 200}

\* The places of the stored tasks with ObjectId n.
Stored(n) == {i \in 1..Len(store) : store[i]._id = n}

\* Request r is answered in this step.
Answered(r) == reqs[r].resp.status = 0 /\ reqs'[r].resp.status # 0

\* The find of request r runs in this step.
Finds(r) == reqs[r].pc = "await_find" /\ reqs'[r].pc = "found"

\* Every write the store has applied belongs to a POST answered with its task.
NoOtherWrites == \A r \in Reqs : reqs[r].wrote => r \in OkPosts

\* ------------------------------------------------------------------- C2

\* C2, as stated: as long as no POST /tasks has completed (none has been
\* answered), every list a GET /tasks has returned is the empty array.
C2_EmptyUntilPostCompletes ==
    (\A p \in Posts : reqs[p].resp.status = 0)
        => \A r \in OkLists : reqs[r].resp.kind = "array" /\ reqs[r].resp.docs = <<>>

\* C2, amended: as long as the store has applied the save of no POST /tasks,
\* answered or still in flight, every GET /tasks that was answered with
\* success was answered with the empty array, whatever GET / and GET /tasks
\* requests came before.
C2_EmptyUntilSaveApplied ==
    (\A p \in Posts : ~reqs[p].wrote)
        => \A r \in OkLists : reqs[r].resp.kind = "array" /\ reqs[r].resp.docs = <<>>

\* A list answered as empty after a GET / and another GET /tasks, no save applied.
C2_Witness ==
    /\ \A p \in Posts : ~reqs[p].wrote
    /\ \E r \in OkLists : r = 3 /\ reqs[r].resp.docs = <<>> /\ reqs[r].resp.kind = "array"
    /\ \E r \in Reqs : reqs[r].route = "GET /" /\ reqs[r].resp.status = 200
    /\ Cardinality(Lists) = 2

\* ------------------------------------------------------------------- C3

\* C3: the stored tasks' identifiers are pairwise distinct, and so are the
\* identifiers any two successful POST /tasks were answered with.
C3_DistinctIds ==
    /\ \A i, j \in 1..Len(store) : store[i]._id = store[j]._id => i = j
    /\ \A p, q \in OkPosts :
           reqs[p].resp.docs[1]._id = reqs[q].resp.docs[1]._id => p = q

\* Two successful POST /tasks with the same body, both stored.
C3_Witness ==
    \E p, q \in OkPosts :
        /\ p # q
        /\ reqs[p].body = reqs[q].body
        /\ Len(store) = 2

\* ------------------------------------------------------------------- C7

\* C7: every save the store applied added one document; a POST /tasks is
\* answered with success only after its save was applied, and its response
\* is the one stored task with its identifier: same identifier, title and
\* description.
C7_ResponseIsStoredTask ==
    /\ Len(store) = Cardinality({r \in Reqs : reqs[r].wrote})
    /\ \A p \in OkPosts :
           /\ reqs[p].wrote
           /\ reqs[p].resp.kind = "object"
           /\ Len(reqs[p].resp.docs) = 1
           /\ \E n \in 1..Len(HexOf) :
                  /\ reqs[p].resp.docs[1]._id = Str(HexOf[n])
                  /\ Cardinality(Stored(n)) = 1
                  /\ \A i \in Stored(n) :
                         /\ reqs[p].resp.docs[1].title = store[i].title
                         /\ reqs[p].resp.docs[1].description = store[i].description

\* A POST /tasks answered with its task, the only one stored.
C7_Witness ==
    /\ Len(store) = 1
    /\ \E p \in OkPosts : reqs[p].resp.docs[1].title = Str("A")

\* ------------------------------------------------------------------- C1

\* The places in the list t of the task a successful POST p was answered with.
PlacesOf(t, p) == {i \in 1..Len(t) : Str(HexOf[t[i]._id]) = reqs[p].resp.docs[1]._id}

\* The response reqs'[r].resp lists the tasks of the list t, one entry each,
\* in t's order.
Lists_(r, t) ==
    /\ reqs'[r].resp.kind = "array"
    /\ Len(reqs'[r].resp.docs) = Len(t)
    /\ \A i \in 1..Len(t) :
           /\ reqs'[r].resp.docs[i]._id = Str(HexOf[t[i]._id])
           /\ reqs'[r].resp.docs[i]._id.val # ""
           /\ reqs'[r].resp.docs[i].title = t[i].title
           /\ reqs'[r].resp.docs[i].description = t[i].description

\* C1, as stated: a GET /tasks whose find runs after n successful POST /tasks
\* and no other write reads n tasks, one per create, each with the title and
\* the description its create request gave, and is answered with them, each
\* with a non-empty identifier.
C1_ListsWhatWasGiven ==
    [][\A r \in Reqs :
        /\ (Finds(r) /\ NoOtherWrites) =>
              /\ Len(reqs'[r].tasks) = Cardinality(OkPosts)
              /\ \A p \in OkPosts :
                     /\ Cardinality(PlacesOf(reqs'[r].tasks, p)) = 1
                     /\ \A i \in PlacesOf(reqs'[r].tasks, p) :
                            /\ reqs'[r].tasks[i].title = reqs[p].body.title
                            /\ reqs'[r].tasks[i].description = reqs[p].body.description
        /\ (r \in Lists /\ Answered(r) /\ reqs'[r].resp.status = 200) =>
              Lists_(r, reqs[r].tasks)
      ]_vars

\* C1, amended: the same, the title and the description being those of the
\* create request as the schema casts them to String (a string unchanged, a
\* number as its text), and the identifier the generated one unless the body
\* named a valid _id of its own.
C1_ListsWhatWasCast ==
    [][\A r \in Reqs :
        /\ (Finds(r) /\ NoOtherWrites) =>
              /\ Len(reqs'[r].tasks) = Cardinality(OkPosts)
              /\ \A p \in OkPosts :
                     /\ Cardinality(PlacesOf(reqs'[r].tasks, p)) = 1
                     /\ \A i \in PlacesOf(reqs'[r].tasks, p) :
                            /\ reqs'[r].tasks[i].title = CastString(reqs[p].body.title)
                            /\ reqs'[r].tasks[i].description =
                                   CastString(reqs[p].body.description)
        /\ (r \in Lists /\ Answered(r) /\ reqs'[r].resp.status = 200) =>
              Lists_(r, reqs[r].tasks)
      ]_vars

\* Two successful creates, one of them {title: "A", description: "B"} and one
\* with a number for a title, then a list answered with their two entries.
C1_Witness ==
    /\ Len(reqs) = 3
    /\ Cardinality(OkPosts) = 2
    /\ NoOtherWrites
    /\ \E p \in OkPosts : reqs[p].body.title = Num("7")
    /\ reqs[3].route = "GET /tasks"
    /\ reqs[3].resp.status = 200
    /\ Len(reqs[3].resp.docs) = 2
    /\ \E i \in 1..2 : /\ reqs[3].resp.docs[i].title = Str("A")
                       /\ reqs[3].resp.docs[i].description = Str("B")

\* ------------------------------------------------------------------- C4

\* The body of request r has a field other than title and description.
HasOtherFields(r) == reqs[r].body.done # Absent \/ reqs[r].body._id # Absent

\* The body of request r has a field the schema does not know.
HasUnknownFields(r) == reqs[r].body.done # Absent

\* The errors of a store that cannot be reached, which no body causes.
Outage == {"MongooseError", "MongoNetworkError"}

C5_RootAlwaysAnswers ==
    \A r \in Reqs : reqs[r].route = "GET /" => reqs[r].resp = RootResp

\* ------------------------------------------------------------------- C6

\* C6, as stated: once the process has taken a GET /tasks or a POST /tasks,
\* the store being unreachable never ends the process and never leaves the
\* request without a response: a request that is no longer being handled has
\* been answered, with a server error when its storage call failed.
C6_ErrorNotCrash ==
    \A r \in Posts \cup Lists :
        reqs[r].pc # "refused" =>
            /\ proc = "running"
            /\ reqs[r].pc \notin {"await_find", "found", "await_save", "saved"}
                   => reqs[r].resp.status \in {200, 500}

\* ------------------------------------------------------------------- C8

\* C8: no step of a GET /tasks request (its arrival, its find, its response,
\* its failure) changes the stored tasks; its find reads every stored task,
\* and its successful response lists every task the find read.
C8_ListIsReadOnly ==
    [][/\ \A r \in Lists :
              /\ reqs'[r] # reqs[r] => store' = store
              /\ Finds(r) => reqs'[r].tasks = store
              /\ (Answered(r) /\ reqs'[r].resp.status = 200) =>
                     /\ Len(reqs'[r].resp.docs) = Len(reqs[r].tasks)
                     /\ \A i \in 1..Len(reqs[r].tasks) :
                            reqs'[r].resp.docs[i]._id = Str(HexOf[reqs[r].tasks[i]._id])
       /\ (Len(reqs') > Len(reqs) /\ reqs'[Len(reqs')].route = "GET /tasks") =>
              store' = store
      ]_vars

\* A GET /tasks answered with the stored task, and one answered 500.
C8_Witness ==
    /\ Len(store) = 1
    /\ \E r \in OkLists : Len(reqs[r].resp.docs) = 1
    /\ \E r \in Lists : reqs[r].resp.status = 500

\* ------------------------------------------------------------------- C9

\* C9: every step keeps every stored task, with its identifier, title and
\* description, at its place: the stored tasks only grow.
C9_TasksOnlyGrow ==
    [][/\ Len(store') >= Len(store)
       /\ \A i \in 1..Len(store) : store'[i] = store[i]]_vars

\* A task stored first and still first after a GET /tasks and a second POST
\* /tasks were answered.
C9_Witness ==
    /\ Len(store) = 2
    /\ Len(reqs) = 3
    /\ reqs[1].route = "POST /tasks" /\ reqs[1].resp.status = 200
    /\ store[1]._id = reqs[1].task._id
    /\ reqs[2].route = "GET /tasks" /\ reqs[2].resp.status = 200
    /\ Len(reqs[2].resp.docs) = 1
    /\ reqs[3].route = "POST /tasks" /\ reqs[3].resp.status = 200

\* ------------------------------------------------------------------ C10

\* The response of the successful POST p is the task its own handler built:
\* the identifier of its own task, with the given title and description.
OwnResponse(p, title, description) ==
    /\ reqs[p].resp.kind = "object"
    /\ reqs[p].resp.docs[1]._id = Str(HexOf[reqs[p].task._id])
    /\ reqs[p].resp.docs[1].title = title
    /\ reqs[p].resp.docs[1].description = description

\* The task of POST p is stored, once, as its handler built it.
OwnTaskStored(p) ==
    /\ Cardinality(Stored(reqs[p].task._id)) = 1
    /\ \A i \in Stored(reqs[p].task._id) : store[i] = reqs[p].task

\* C10, as stated: when a POST /tasks is answered while another one is at its
\* await on save (an outage of the store and a body that cannot be cast
\* aside), it is answered with success, its task is stored, and its response
\* carries its own identifier and the title and description of its request.
C10_ConcurrentWritesBothKept ==
    [][\A p, q \in Posts :
        (/\ p # q
         /\ reqs[p].pc \in {"await_save", "saved"}
         /\ reqs[q].pc \in {"await_save", "saved"}
         /\ Answered(q)
         /\ reqs'[q].resp.text \notin Outage \cup {"ValidationError"}) =>
            /\ reqs'[q].resp.status = 200
            /\ reqs'[q].resp.kind = "object"
            /\ reqs'[q].resp.docs[1]._id = Str(HexOf[reqs[q].task._id])
            /\ reqs'[q].resp.docs[1].title = reqs[q].body.title
            /\ reqs'[q].resp.docs[1].description = reqs[q].body.description
            /\ Cardinality(Stored(reqs[q].task._id)) = 1
      ]_vars

\* C10, amended: of any two POST /tasks answered with success, however their
\* handlers interleaved, both tasks are stored, once each and as built, under
\* distinct identifiers, and each response carries the identifier of its own
\* task and the title and description of its own request as the schema casts
\* them to String. A POST /tasks answered with an error other than a lost
\* reply (an _id already stored, among them) has stored nothing.
C10_SuccessfulWritesBothKept ==
    /\ \A p, q \in OkPosts :
           p # q =>
               /\ reqs[p].task._id # reqs[q].task._id
               /\ OwnTaskStored(p)
               /\ OwnTaskStored(q)
               /\ OwnResponse(p, CastString(reqs[p].body.title),
                              CastString(reqs[p].body.description))
               /\ OwnResponse(q, CastString(reqs[q].body.title),
                              CastString(reqs[q].body.description))
    /\ \A p \in Posts :
           (reqs[p].resp.status = 500 /\ reqs[p].resp.text # "MongoNetworkError")
               => ~reqs[p].wrote

\* Two POST /tasks that interleaved at the await on save, both answered with
\* success: the one that arrived second was saved first.
C10_Witness ==
    \E p, q \in OkPosts :
        /\ p < q
        /\ reqs[p].body.title # reqs[q].body.title
        /\ \E i, j \in 1..Len(store) :
               /\ i < j
               /\ store[i]._id = reqs[q].task._id
               /\ store[j]._id = reqs[p].task._id

====
